---- MODULE Spec2Model ----
(***************************************************************************)
(* redis-type: List / Hash / Set wrappers over a Redis client.             *)
(*                                                                         *)
(* The remote store holds texts (Redis strings).  A text is modelled as a  *)
(* sequence of lexemes: "a", "1", "__DELETE__" stand for runs of ordinary  *)
(* characters, Q is the double quote and BS the backslash, so that         *)
(* JSON.stringify / JSON.parse are computed, not assumed.                  *)
(* A JS value is a record [t, s]: t = "str" (s = its characters),          *)
(* t = "num" (s = its digits), t = "bool" or t = "null".                   *)
(*                                                                         *)
(* The client is outside the library: each Redis command is modelled as    *)
(* the Redis command reference defines it, applied to the arguments the    *)
(* wrapper passes after the key.  lib/list.js holds three revisions of the *)
(* class; the List calls below are those of the second and third (which    *)
(* agree, splice being in the third only), and the first revision's        *)
(* setElementAt is a call of its own.  The base class exists as Wrapper    *)
(* (lib/wrapper.js) and as Base (base.ts); construction models both.       *)
(***************************************************************************)
EXTENDS Integers, Sequences, FiniteSets, TLC

VARIABLES
    useJSON,   \* the instance's serialization flag (wrapper.js:97)
    list,      \* the remote LIST stored under the instance's key
    hash,      \* the remote HASH stored under the instance's key
    last,      \* the last completed call: its arguments and what it resolved with
    sp,        \* the splice call in flight (its locals and position), or idle
    seen,      \* what another client's LRANGE 0 -1 returned while splice was in flight
    set,       \* the remote SET stored under the instance's key
    inst,      \* the instance: its class, client and key, or why construction threw
    touched    \* the keys the instance's commands were issued against

vars == <<useJSON, list, hash, last, sp, seen, set, inst, touched>>

\* ---------------------------------------------------------------- bounds

MaxLen == 3      \* longest remote list explored
MaxArgs == 2     \* most elements passed to one push / unshift / splice call

\* ---------------------------------------------------------------- values

Q == "\""
BS == "\\"
DELETE == "__DELETE__"

Str(s) == [t |-> "str", s |-> s]
Num(d) == [t |-> "num", s |-> <<d>>]
Null == [t |-> "null", s |-> <<>>]

Digits == {"1"}

\* Elements handed to a flag-off instance are strings (@param {String}); a
\* flag-on instance takes any JSON value.
ListVals(flag) ==
    IF flag THEN {Str(<<"a">>), Num("1"), Str(<<DELETE>>)}
            ELSE {Str(<<"a">>), Str(<<"1">>), Str(<<DELETE>>)}

RECURSIVE SeqsUpTo(_, _)
SeqsUpTo(S, n) ==
    IF n = 0 THEN {<<>>}
    ELSE LET shorter == SeqsUpTo(S, n - 1)
         IN shorter \cup {Append(q, x) : q \in {r \in shorter : Len(r) = n - 1}, x \in S}

Reverse(q) == [i \in 1..Len(q) |-> q[Len(q) + 1 - i]]

\* An optional integer argument: <<>> when omitted (undefined / null), <<n>> otherwise.
Omitted == <<>>
Given(n) == <<n>>

\* ---------------------------------------------------------------- json.ts

RECURSIVE Escape(_)
Escape(s) ==
    IF s = <<>> THEN <<>>
    ELSE (IF Head(s) \in {Q, BS} THEN <<BS, Head(s)>> ELSE <<Head(s)>>) \o Escape(Tail(s))

\* JSON.stringify
toJSON(v) ==
    CASE v.t = "str" -> <<Q>> \o Escape(v.s) \o <<Q>>
      [] v.t = "num" -> v.s
      [] OTHER -> <<"null">>

RECURSIVE WellEscaped(_)
WellEscaped(s) ==
    IF s = <<>> THEN TRUE
    ELSE IF Head(s) = Q THEN FALSE
    ELSE IF Head(s) = BS
         THEN Len(s) >= 2 /\ s[2] \in {Q, BS} /\ WellEscaped(Tail(Tail(s)))
         ELSE WellEscaped(Tail(s))

RECURSIVE Unescape(_)
Unescape(s) ==
    IF s = <<>> THEN <<>>
    ELSE IF Head(s) = BS THEN <<s[2]>> \o Unescape(Tail(Tail(s)))
    ELSE <<Head(s)>> \o Unescape(Tail(s))

\* A reply of the client: a text, or nil.
Nil == [nil |-> TRUE, text |-> <<>>]
Reply(text) == [nil |-> FALSE, text |-> text]

\* A parse that hands a text it cannot parse back as a string.
parseLenient(r) ==
    LET x == r.text IN
    CASE r.nil -> [ok |-> TRUE, v |-> Null]
      [] ~r.nil /\ x = <<"null">> -> [ok |-> TRUE, v |-> Null]
      [] ~r.nil /\ Len(x) = 1 /\ x[1] \in Digits -> [ok |-> TRUE, v |-> Num(x[1])]
      [] ~r.nil /\ Len(x) >= 2 /\ x[1] = Q /\ x[Len(x)] = Q
            /\ WellEscaped(SubSeq(x, 2, Len(x) - 1))
            -> [ok |-> TRUE, v |-> Str(Unescape(SubSeq(x, 2, Len(x) - 1)))]
      [] OTHER -> [ok |-> TRUE, v |-> Str(x)]

\* JSON.parse of a reply: [ok, v]; ok = FALSE is the SyntaxError it throws.
\* JSON.parse(null) is null.
parse(r) ==
    LET x == r.text IN
    CASE r.nil -> [ok |-> TRUE, v |-> Null]
      [] ~r.nil /\ x = <<"null">> -> [ok |-> TRUE, v |-> Null]
      [] ~r.nil /\ Len(x) = 1 /\ x[1] \in Digits -> [ok |-> TRUE, v |-> Num(x[1])]
      [] ~r.nil /\ Len(x) >= 2 /\ x[1] = Q /\ x[Len(x)] = Q
            /\ WellEscaped(SubSeq(x, 2, Len(x) - 1))
            -> [ok |-> TRUE, v |-> Str(Unescape(SubSeq(x, 2, Len(x) - 1)))]
      [] OTHER -> [ok |-> FALSE, v |-> Null]

\* parseArray: arr.map(parse); throws as soon as one element does.
parseArray(texts) ==
    LET each == [i \in 1..Len(texts) |-> parse(Reply(texts[i]))] IN
    [ok |-> \A i \in 1..Len(texts) : each[i].ok,
     v  |-> [i \in 1..Len(texts) |-> each[i].v]]

\* The client writes an argument as its string form: a string as it is, a
\* number as its digits.
ToText(v) == IF v.t = "null" THEN <<"null">> ELSE v.s

\* A text read back with the flag off is a JS string.
FromText(r) == IF r.nil THEN Null ELSE Str(r.text)

\* ---------------------------------------------------------------- the Redis LIST commands the wrapper calls

LLEN(l) == Len(l)

RPUSH(l, texts) == l \o texts

\* LPUSH puts its arguments at the head one after the other.
RECURSIVE LPUSH(_, _)
LPUSH(l, texts) ==
    IF texts = <<>> THEN l ELSE LPUSH(<<Head(texts)>> \o l, Tail(texts))

\* The closed range start..stop of l, as LRANGE and LTRIM resolve it:
\* negative offsets count from the tail, out-of-range offsets are clamped.
Range(l, start, stop) ==
    LET len == Len(l)
        s0  == IF start < 0 THEN len + start ELSE start
        e0  == IF stop < 0 THEN len + stop ELSE stop
        s1  == IF s0 < 0 THEN 0 ELSE s0
        e1  == IF e0 >= len THEN len - 1 ELSE e0
    IN IF s1 > e0 \/ s1 >= len THEN <<>> ELSE SubSeq(l, s1 + 1, e1 + 1)

LRANGE(l, start, stop) == Range(l, start, stop)

LTRIM(l, start, stop) == Range(l, start, stop)

LPOP(l) == IF l = <<>> THEN [list |-> l, reply |-> Nil]
           ELSE [list |-> Tail(l), reply |-> Reply(Head(l))]

RPOP(l) == IF l = <<>> THEN [list |-> l, reply |-> Nil]
           ELSE [list |-> SubSeq(l, 1, Len(l) - 1), reply |-> Reply(l[Len(l)])]

Offset(l, index) == IF index < 0 THEN Len(l) + index ELSE index

LINDEX(l, index) ==
    LET k == Offset(l, index) IN
    IF k < 0 \/ k >= Len(l) THEN Nil ELSE Reply(l[k + 1])

\* LSET answers with an error (no such key / index out of range) and changes
\* nothing when the offset is not one of the list.
LSET(l, index, text) ==
    LET k == Offset(l, index) IN
    IF k < 0 \/ k >= Len(l) THEN [list |-> l, err |-> TRUE]
    ELSE [list |-> [l EXCEPT ![k + 1] = text], err |-> FALSE]

\* LREM key 0 text: every element equal to text goes; replies their number.
LREM(l, text) ==
    LET kept == SelectSeq(l, LAMBDA x : x # text) IN
    [list |-> kept, n |-> Len(l) - Len(kept)]

\* LINSERT key BEFORE|AFTER pivot text: beside the first element equal to
\* pivot; replies the new length, -1 when no element is the pivot, 0 when
\* the key holds nothing.
LINSERT(l, where, pivot, text) ==
    LET hits == {i \in 1..Len(l) : l[i] = pivot} IN
    IF l = <<>> THEN [list |-> l, n |-> 0]
    ELSE IF hits = {} THEN [list |-> l, n |-> -1]
    ELSE LET p == CHOOSE i \in hits : \A j \in hits : i <= j
             at == IF where = "after" THEN p ELSE p - 1
         IN [list |-> SubSeq(l, 1, at) \o <<text>> \o SubSeq(l, at + 1, Len(l)),
             n |-> Len(l) + 1]

\* ---------------------------------------------------------------- lib/list.js

\* What a call resolved with: the remote list after it, the value(s) it
\* resolved with, a numeric reply, and whether it rejected instead.
Res(l, ret, n, err) == [list |-> l, ret |-> ret, n |-> n, err |-> err]

pushArgsReversed(flag, els) ==
    [i \in 1..Len(els) |->
        IF flag THEN toJSON(els[Len(els) + 1 - i]) ELSE ToText(els[Len(els) + 1 - i])]

\* els.map(this.json.toJSON) when the flag is on, els otherwise.
pushArgs(flag, els) ==
    [i \in 1..Len(els) |-> IF flag THEN toJSON(els[i]) ELSE ToText(els[i])]

push(flag, l, els) ==
    LET l2 == RPUSH(l, pushArgs(flag, els)) IN Res(l2, <<>>, LLEN(l2), FALSE)

unshiftArgsKeepOrder(flag, els) ==
    [i \in 1..Len(els) |-> IF flag THEN toJSON(els[i]) ELSE ToText(els[i])]

\* els.reverse().map(this.json.toJSON) when the flag is on, els.reverse() otherwise.
unshiftArgs(flag, els) ==
    LET r == Reverse(els) IN
    [i \in 1..Len(r) |-> IF flag THEN toJSON(r[i]) ELSE ToText(r[i])]

unshift(flag, l, els) ==
    LET l2 == LPUSH(l, unshiftArgs(flag, els)) IN Res(l2, <<>>, LLEN(l2), FALSE)

sliceRangeEndKept(begin, end) ==
    IF end = Omitted THEN <<begin, -1>> ELSE <<begin, end[1]>>

\* The switch of slice: the closed range handed to LRANGE.
sliceRange(begin, end) ==
    CASE end = Omitted /\ begin < 0 -> <<begin, -1>>
      [] end = Omitted /\ begin = 0 -> <<0, -1>>
      [] end = Omitted /\ begin > 0 -> <<begin, -1>>
      [] OTHER -> <<begin, end[1] - 1>>

\* The elements of a range reply as the instance hands them out.
decodeArray(flag, texts) ==
    IF flag THEN parseArray(texts)
    ELSE [ok |-> TRUE, v |-> [i \in 1..Len(texts) |-> Str(texts[i])]]

slice(flag, l, begin, end) ==
    LET r == sliceRange(begin, end)
        d == decodeArray(flag, LRANGE(l, r[1], r[2]))
    IN IF d.ok THEN Res(l, d.v, 0, FALSE) ELSE Res(l, <<>>, 0, TRUE)

\* The value of a single-element reply.
decode(flag, r) ==
    IF flag THEN parse(r) ELSE [ok |-> TRUE, v |-> FromText(r)]

shiftFromTail(flag, l) ==
    LET c == RPOP(l)
        d == decode(flag, c.reply)
    IN Res(c.list, <<d.v>>, 0, ~d.ok)

shift(flag, l) ==
    LET c == LPOP(l)
        d == decode(flag, c.reply)
    IN Res(c.list, <<d.v>>, 0, ~d.ok)

pop(flag, l) ==
    LET c == RPOP(l)
        d == decode(flag, c.reply)
    IN Res(c.list, <<d.v>>, 0, ~d.ok)

\* A read that takes the element out of the list.
getElementAtRemoving(flag, l, index) ==
    LET d == decode(flag, LINDEX(l, index))
        k == Offset(l, index)
    IN Res(IF k < 0 \/ k >= Len(l) THEN l ELSE SubSeq(l, 1, k) \o SubSeq(l, k + 2, Len(l)),
           <<d.v>>, 0, ~d.ok)

getElementAt(flag, l, index) ==
    LET d == decode(flag, LINDEX(l, index)) IN Res(l, <<d.v>>, 0, ~d.ok)

setElementAtText(flag, value) == IF flag THEN toJSON(value) ELSE ToText(value)

setElementAt(flag, l, index, value) ==
    LET c == LSET(l, index, setElementAtText(flag, value)) IN
    Res(c.list, <<>>, 0, c.err)

\* First revision: this.prom('lset', index, el) only builds the bound
\* function; no command is sent and the call returns without rejecting.
setElementAt_rev1(l, index, el) == Res(l, <<>>, 0, FALSE)

trimRangeHalfOpen(begin, end) == <<begin, end - 1>>

\* The range handed to LTRIM: the caller's begin and end, unchanged.
trimRange(begin, end) == <<begin, end>>

trim(l, begin, end) ==
    LET r == trimRange(begin, end) IN Res(LTRIM(l, r[1], r[2]), <<>>, 0, FALSE)

\* The pivot of LINSERT is sent as its string form.
PivotText(key) == ToText(key)

insertAfter(flag, l, key, el) ==
    LET c == LINSERT(l, "after", PivotText(key), setElementAtText(flag, el)) IN
    Res(c.list, <<>>, c.n, FALSE)

insertBefore(flag, l, key, el) ==
    LET c == LINSERT(l, "before", PivotText(key), setElementAtText(flag, el)) IN
    Res(c.list, <<>>, c.n, FALSE)

\* ---------------------------------------------------------------- splice (third revision of lib/list.js)

\* The number start + counter as the JS value handed to insertAfter.
NumVal(n) == [t |-> "num", s |-> <<ToString(n)>>]

SpliceMark == Str(<<DELETE>>)

\* The locals of one splice call and the command it awaits next; others
\* counts the commands other clients ran on the key meanwhile and shadow is
\* the list as those commands alone would have left it.
Frame(l, start, dc, items) ==
    [pc |-> "multi", pre |-> l, start |-> start, dc |-> dc, items |-> items,
     result |-> <<>>, i |-> start, counter |-> 0, others |-> 0, shadow |-> l]

Idle == [pc |-> "idle", pre |-> <<>>, start |-> 0, dc |-> Omitted, items |-> <<>>,
         result |-> <<>>, i |-> 0, counter |-> 0, others |-> 0, shadow |-> <<>>]

AfterDelete(f) == IF Len(f.items) > 0 THEN "insert" ELSE "exec"

\* await this.prom('multi') and await this.prom('exec') await the bound
\* function itself: it is never called, so neither MULTI nor EXEC is sent and
\* every command below takes effect on the remote list when it is issued.
spliceMulti(l, f) ==
    [list |-> l,
     f |-> [f EXCEPT !.pc = IF f.dc = Omitted \/ f.dc[1] > 0 THEN "capture"
                            ELSE AfterDelete(f)]]

spliceCapture(flag, l, f) ==
    LET r == IF f.dc = Omitted THEN slice(flag, l, f.start, Omitted)
             ELSE slice(flag, l, f.start, Given(f.start + f.dc[1]))
    IN [list |-> l,
        f |-> IF r.err THEN [f EXCEPT !.pc = "failed"]
              ELSE [f EXCEPT !.result = r.ret, !.i = f.start,
                             !.pc = IF Len(r.ret) > 0 THEN "mark" ELSE "lrem"]]

spliceMarkOne(flag, l, f) ==
    LET c == setElementAt(flag, l, f.i, SpliceMark) IN
    [list |-> c.list,
     f |-> IF c.err THEN [f EXCEPT !.pc = "failed"]
           ELSE [f EXCEPT !.i = f.i + 1,
                          !.pc = IF f.i + 1 < f.start + Len(f.result) THEN "mark"
                                 ELSE "lrem"]]

\* this.prom('lrem')(0, this.json.toJSON('__DELETE__')), whatever the flag.
spliceLrem(l, f) ==
    [list |-> LREM(l, toJSON(SpliceMark)).list, f |-> [f EXCEPT !.pc = AfterDelete(f)]]

spliceInsertOne(flag, l, f) ==
    LET c == insertAfter(flag, l, NumVal(f.start + f.counter), f.items[f.counter + 1]) IN
    [list |-> c.list,
     f |-> [f EXCEPT !.counter = f.counter + 1,
                     !.pc = IF f.counter + 1 < Len(f.items) THEN "insert" ELSE "exec"]]

spliceExec(l, f) == [list |-> l, f |-> [f EXCEPT !.pc = "done"]]

spliceStep(flag, l, f) ==
    CASE f.pc = "multi"   -> spliceMulti(l, f)
      [] f.pc = "capture" -> spliceCapture(flag, l, f)
      [] f.pc = "mark"    -> spliceMarkOne(flag, l, f)
      [] f.pc = "lrem"    -> spliceLrem(l, f)
      [] f.pc = "insert"  -> spliceInsertOne(flag, l, f)
      [] f.pc = "exec"    -> spliceExec(l, f)

\* One splice call run to its end with no other command in between.
RECURSIVE spliceRun(_, _, _)
spliceRun(flag, l, f) ==
    IF f.pc \in {"done", "failed"} THEN [list |-> l, f |-> f]
    ELSE LET n == spliceStep(flag, l, f) IN spliceRun(flag, n.list, n.f)

splice(flag, l, start, dc, items) ==
    LET r == spliceRun(flag, l, Frame(l, start, dc, items)) IN
    Res(r.list, r.f.result, 0, r.f.pc = "failed")

\* ---------------------------------------------------------------- construction (lib/wrapper.js, base.ts)

\* What a caller may pass as the client: undefined, null, a number, a client object.
Clients == {"undefined", "null", "number", "object"}

\* !client
ClientFalsy(c) == c \in {"undefined", "null"}

\* client instanceof Object
InstanceOfObject(c) == c = "object"

\* What a caller may pass as the key: '', 'k', the number 1, null / undefined.
KeyArgs == {Str(<<>>), Str(<<"k">>), Num("1"), Null}

\* !key
Falsy(v) == v.t = "null" \/ (v.t = "str" /\ v.s = <<>>) \/ (v.t = "num" /\ v.s = <<"0">>)

\* !key.constructor === 'String' is (!key.constructor) === 'String': a boolean
\* compared with a string, false for every key.
KeyConstructorTest(key) == FALSE

\* The optional useJSON argument: omitted, true or false.
FlagArgs == {Omitted, <<TRUE>>, <<FALSE>>}

\* useJSON = false
DefaultFlag(flagArg) == IF flagArg = Omitted THEN FALSE ELSE flagArg[1]

\* type is the class instantiated (List, Hash or Set), cls the base class it
\* extends (Wrapper in lib/, Base in src/).
NoInstance ==
    [state |-> "none", type |-> "none", cls |-> "none", client |-> "undefined", key |-> Null,
     error |-> "none", given |-> [client |-> "undefined", key |-> Null, flag |-> FALSE]]

\* new threw: there is no instance.
Threw(cls, error, client, key, flagArg) ==
    [inst |-> [NoInstance EXCEPT !.state = "threw", !.cls = cls, !.error = error,
                                 !.given = [client |-> client, key |-> key,
                                            flag |-> DefaultFlag(flagArg)]],
     useJSON |-> FALSE]

Made(cls, client, key, flagArg) ==
    [inst |-> [state |-> "made", type |-> "none", cls |-> cls, client |-> client, key |-> key,
               error |-> "none",
               given |-> [client |-> client, key |-> key, flag |-> DefaultFlag(flagArg)]],
     useJSON |-> DefaultFlag(flagArg)]

Wrapper_constructor(client, key, flagArg) ==
    IF ClientFalsy(client) \/ ~InstanceOfObject(client)
    THEN Threw("Wrapper", "client", client, key, flagArg)
    ELSE IF Falsy(key) \/ KeyConstructorTest(key)
    THEN Threw("Wrapper", "key", client, key, flagArg)
    ELSE Made("Wrapper", client, key, flagArg)

\* constructor(protected client, public key, public useJSON = false) {}
Base_constructor(client, key, flagArg) == Made("Base", client, key, flagArg)

constructor(cls, client, key, flagArg) ==
    IF cls = "Wrapper" THEN Wrapper_constructor(client, key, flagArg)
    ELSE Base_constructor(client, key, flagArg)

\* new List(...), new Hash(...), new Set(...): none of the three classes
\* declares a constructor of its own.
New(type, cls, client, key, flagArg) ==
    LET c == constructor(cls, client, key, flagArg) IN [c EXCEPT !.inst.type = type]

\* instance.key = v / instance.useJSON = v on a Wrapper: the properties were
\* defined with a value only, so they are not writable and keep their value
\* (the assignment throws in strict code and is ignored elsewhere).
Wrapper_assign(old, v) == old

\* On a Base they are plain public fields.
Base_assign(old, v) == v

assign(cls, old, v) == IF cls = "Wrapper" THEN Wrapper_assign(old, v) ELSE Base_assign(old, v)

\* DEL key: the key is gone whatever its type; the reply counts the keys that
\* existed.  An empty list, hash or set is a key that does not exist.
DEL(exists) == [exists |-> FALSE, n |-> IF exists THEN 1 ELSE 0]

clearKeepsKey(exists) == [exists |-> exists, n |-> IF exists THEN 1 ELSE 0]

\* Wrapper.clear / Base.removeKey
clear(exists) == DEL(exists)

\* ---------------------------------------------------------------- the calls of a client of one List instance

Fields == {"k1", "k2"}

ArgsOn == SeqsUpTo(ListVals(TRUE), MaxArgs)
ArgsOff == SeqsUpTo(ListVals(FALSE), MaxArgs)

\* The argument lists of a variadic call.
Args(flag) == IF flag THEN ArgsOn ELSE ArgsOff

EmptyHash == [k \in Fields |-> Nil]

Indices == (0 - MaxLen - 1)..(MaxLen + 1)

OptIndices == {Omitted} \cup {Given(n) : n \in Indices}

Call(op, pre, els, i, j, r) ==
    [op |-> op, key |-> "", pre |-> pre, els |-> els, i |-> i, j |-> j,
     ret |-> r.ret, n |-> r.n, err |-> r.err]

NoCall == Call("none", <<>>, <<>>, 0, Omitted, Res(<<>>, <<>>, 0, FALSE))

\* A call is issued on an instance, once the caller has read the previous
\* call's outcome.  A call on an instance whose client is not a client object
\* throws before any command is sent, and the calls of a Base whose key was
\* reassigned address another key: neither changes the collections here.
Callable ==
    /\ inst.state = "made" /\ inst.client = "object" /\ inst.key = inst.given.key
    /\ last.op = "none" /\ sp.pc = "idle"

Ready == Callable /\ inst.type = "List"

HashReady == Callable /\ inst.type = "Hash"

SetReady == Callable /\ inst.type = "Set"

\* .bind(this.client, this.key): the key every command of the instance gets
\* as its first argument (clear / removeKey pass this.key themselves).
boundKey(i) == i.key

\* The call sends at least one command, or none.
Issue(sends) == touched' = IF sends THEN touched \cup {boundKey(inst)} ELSE touched

Done(op, els, i, j, r) ==
    /\ list' = r.list
    /\ last' = Call(op, list, els, i, j, r)
    /\ Issue(TRUE)
    /\ UNCHANGED <<useJSON, hash, sp, seen, set, inst>>

Length == Ready /\ Done("length", <<>>, 0, Omitted, Res(list, <<>>, LLEN(list), FALSE))

Shift == Ready /\ Done("shift", <<>>, 0, Omitted, shift(useJSON, list))

Pop == Ready /\ Done("pop", <<>>, 0, Omitted, pop(useJSON, list))

Push ==
    /\ Ready
    /\ \E els \in Args(useJSON) :
        /\ els # <<>>
        /\ Len(list) + Len(els) <= MaxLen
        /\ Done("push", els, 0, Omitted, push(useJSON, list, els))

Unshift ==
    /\ Ready
    /\ \E els \in Args(useJSON) :
        /\ els # <<>>
        /\ Len(list) + Len(els) <= MaxLen
        /\ Done("unshift", els, 0, Omitted, unshift(useJSON, list, els))

Slice ==
    /\ Ready
    /\ \E begin \in Indices, end \in OptIndices :
        Done("slice", <<>>, begin, end, slice(useJSON, list, begin, end))

InsertAfter ==
    /\ Ready
    /\ \E key \in ListVals(useJSON), el \in ListVals(useJSON) :
        /\ Len(list) < MaxLen
        /\ Done("insertAfter", <<key, el>>, 0, Omitted, insertAfter(useJSON, list, key, el))

InsertBefore ==
    /\ Ready
    /\ \E key \in ListVals(useJSON), el \in ListVals(useJSON) :
        /\ Len(list) < MaxLen
        /\ Done("insertBefore", <<key, el>>, 0, Omitted, insertBefore(useJSON, list, key, el))

GetElementAt ==
    /\ Ready
    /\ \E index \in Indices :
        Done("getElementAt", <<>>, index, Omitted, getElementAt(useJSON, list, index))

SetElementAt ==
    /\ Ready
    /\ \E index \in Indices, value \in ListVals(useJSON) :
        Done("setElementAt", <<value>>, index, Omitted,
             setElementAt(useJSON, list, index, value))

SetElementAtRev1 ==
    /\ Ready
    /\ \E index \in Indices, value \in ListVals(useJSON) :
        LET r == setElementAt_rev1(list, index, value) IN
        /\ list' = r.list
        /\ last' = Call("setElementAt_rev1", list, <<value>>, index, Omitted, r)
        /\ Issue(FALSE)
        /\ UNCHANGED <<useJSON, hash, sp, seen, set, inst>>

Trim ==
    /\ Ready
    /\ \E begin \in Indices, end \in Indices :
        Done("trim", <<>>, begin, Given(end), trim(list, begin, end))

Splice ==
    /\ Ready
    /\ \E start \in -1..MaxLen, dc \in {Omitted} \cup {Given(n) : n \in 0..MaxLen},
       items \in Args(useJSON) :
        LET r == splice(useJSON, list, start, dc, items) IN
        /\ Len(r.list) <= MaxLen
        /\ list' = r.list
        /\ last' = Call("splice", list, items, start, dc, r)
        /\ Issue(dc = Omitted \/ dc[1] > 0 \/ items # <<>>)
        /\ UNCHANGED <<useJSON, hash, sp, seen, set, inst>>

\* The caller has read the outcome of its last call and goes on.
Continue ==
    /\ last.op # "none"
    /\ last' = NoCall
    /\ UNCHANGED <<useJSON, list, hash, sp, seen, set, inst, touched>>

\* A client holding one instance of the class type, on an empty key.
InitOf(type) ==
    /\ useJSON \in BOOLEAN
    /\ list = <<>>
    /\ hash = EmptyHash
    /\ last = NoCall
    /\ sp = Idle
    /\ seen = <<>>
    /\ set = {}
    /\ touched = {}
    /\ inst = New(type, "Wrapper", "object", Str(<<"k">>), <<useJSON>>).inst

InitList == InitOf("List")

NextList ==
    \/ Length \/ Shift \/ Pop \/ Push \/ Unshift \/ Slice
    \/ InsertAfter \/ InsertBefore \/ GetElementAt
    \/ SetElementAt \/ SetElementAtRev1 \/ Trim \/ Splice
    \/ Continue

SpecList == InitList /\ [][NextList]_vars

\* ---------------------------------------------------------------- splice command by command, other clients in between

MaxOthers == 1   \* most commands other clients run on the key during one splice

InFlight == sp.pc \in {"multi", "capture", "mark", "lrem", "insert", "exec"}

SpliceBegin ==
    /\ Ready
    /\ \E start \in 0..1, dc \in {Omitted} \cup {Given(n) : n \in 0..2},
          items \in {q \in Args(useJSON) : Len(q) <= 1} :
        /\ Len(list) + Len(items) <= MaxLen
        /\ sp' = Frame(list, start, dc, items)
    /\ UNCHANGED <<useJSON, list, hash, last, seen, set, inst, touched>>

\* The command splice awaits next takes effect.
SpliceStepTaken(n) ==
    /\ list' = n.list
    /\ sp' = n.f
    /\ Issue(sp.pc \in {"capture", "mark", "lrem", "insert"})
    /\ UNCHANGED <<useJSON, hash, last, seen, set, inst>>

SpliceMultiStep == sp.pc = "multi" /\ SpliceStepTaken(spliceMulti(list, sp))

SpliceCaptureStep == sp.pc = "capture" /\ SpliceStepTaken(spliceCapture(useJSON, list, sp))

SpliceMarkStep == sp.pc = "mark" /\ SpliceStepTaken(spliceMarkOne(useJSON, list, sp))

SpliceLremStep == sp.pc = "lrem" /\ SpliceStepTaken(spliceLrem(list, sp))

SpliceInsertStep == sp.pc = "insert" /\ SpliceStepTaken(spliceInsertOne(useJSON, list, sp))

SpliceExecStep == sp.pc = "exec" /\ SpliceStepTaken(spliceExec(list, sp))

\* The client rejects the awaited command (connection lost, server error):
\* the await throws out of splice; nothing catches it and nothing is undone.
SpliceCommandFails ==
    /\ sp.pc \in {"capture", "mark", "lrem", "insert"}
    /\ sp' = [sp EXCEPT !.pc = "failed"]
    /\ UNCHANGED <<useJSON, list, hash, last, seen, set, inst, touched>>

\* The caller gets the outcome of splice.
SpliceReturn ==
    /\ sp.pc \in {"done", "failed"}
    /\ last' = Call("splice", sp.pre, sp.items, sp.start, sp.dc,
                    Res(list, sp.result, 0, sp.pc = "failed"))
    /\ sp' = Idle
    /\ seen' = <<>>
    /\ UNCHANGED <<useJSON, list, hash, set, inst, touched>>

\* Another client of the same key (same flag) while the splice is in flight.
\* Outside a splice its commands are the calls above.
OtherPush ==
    /\ InFlight
    /\ sp.others < MaxOthers
    /\ Len(list) < MaxLen
    /\ \E v \in ListVals(useJSON) :
        /\ list' = push(useJSON, list, <<v>>).list
        /\ sp' = [sp EXCEPT !.others = sp.others + 1,
                            !.shadow = push(useJSON, sp.shadow, <<v>>).list]
    /\ UNCHANGED <<useJSON, hash, last, seen, set, inst, touched>>

OtherPop ==
    /\ InFlight
    /\ sp.others < MaxOthers
    /\ list' = pop(useJSON, list).list
    /\ sp' = [sp EXCEPT !.others = sp.others + 1,
                        !.shadow = pop(useJSON, sp.shadow).list]
    /\ UNCHANGED <<useJSON, hash, last, seen, set, inst, touched>>

\* Another client reads the whole list (LRANGE 0 -1).
OtherSlice ==
    /\ InFlight
    /\ seen' = <<LRANGE(list, 0, -1)>>
    /\ UNCHANGED <<useJSON, list, hash, last, sp, set, inst, touched>>

NextSplice ==
    \/ Push \/ Continue
    \/ SpliceBegin \/ SpliceMultiStep \/ SpliceCaptureStep \/ SpliceMarkStep
    \/ SpliceLremStep \/ SpliceInsertStep \/ SpliceExecStep
    \/ SpliceCommandFails \/ SpliceReturn
    \/ OtherPush \/ OtherPop \/ OtherSlice

SpecSplice == InitList /\ [][NextSplice]_vars

\* ---------------------------------------------------------------- the Redis HASH commands the wrapper calls

HLEN(h) == Cardinality({k \in Fields : ~h[k].nil})

\* HSET replies 1 for a new field and 0 for an overwritten one.
HSET(h, field, text) ==
    [hash |-> [h EXCEPT ![field] = Reply(text)], n |-> IF h[field].nil THEN 1 ELSE 0]

HGET(h, field) == h[field]

HDEL(h, field) ==
    [hash |-> [h EXCEPT ![field] = Nil], n |-> IF h[field].nil THEN 0 ELSE 1]

HEXISTS(h, field) == IF h[field].nil THEN 0 ELSE 1

\* ---------------------------------------------------------------- lib/hash.js

HashVals(flag) ==
    IF flag THEN {Str(<<"a">>), Str(<<"1">>), Num("1"), Null, Str(<<Q, "a", Q>>), Str(<<BS>>)}
            ELSE {Str(<<"a">>), Str(<<"1">>), Str(<<Q, "a", Q>>)}

HRes(h, ret, n, err) == [hash |-> h, ret |-> ret, n |-> n, err |-> err]

Hash_size(h) == HRes(h, <<>>, HLEN(h), FALSE)

Hash_delete(h, key) == LET c == HDEL(h, key) IN HRes(c.hash, <<>>, c.n, FALSE)

\* The JS booleans.
Bool(b) == [t |-> "bool", s |-> <<IF b THEN "true" ELSE "false">>]

NotNotRaw(e) == NumVal(e)

\* (e) => !!e on the integer reply of HEXISTS
NotNot(e) == Bool(e # 0)

Hash_has(h, key) == HRes(h, <<NotNot(HEXISTS(h, key))>>, 0, FALSE)

Hash_setTextRaw(flag, value) == ToText(value)

\* The text handed to HSET: this.json.toJSON(value) when the flag is on.
Hash_setText(flag, value) == IF flag THEN toJSON(value) ELSE ToText(value)

Hash_set(flag, h, key, value) ==
    LET c == HSET(h, key, Hash_setText(flag, value)) IN HRes(c.hash, <<>>, c.n, FALSE)

Hash_get(flag, h, key) ==
    LET d == decode(flag, HGET(h, key)) IN HRes(h, <<d.v>>, 0, ~d.ok)

\* A JS object: null, or its keys in insertion order and the value of each.
NullObject == [null |-> TRUE, keys |-> <<>>, val |-> <<>>]

Members(q) == {q[i] : i \in DOMAIN q}

\* The fields present in h, in each order the server may reply them.
FieldOrders(h) ==
    {q \in SeqsUpTo(Fields, Cardinality(Fields)) :
        /\ Members(q) = {k \in Fields : ~h[k].nil}
        /\ Len(q) = Cardinality(Members(q))}

\* HGETALL as the client hands it over: an object with one string property
\* per field; for a hash with no field, null or {} depending on the client.
HGETALL(h, order, nullWhenEmpty) ==
    IF order = <<>> /\ nullWhenEmpty THEN NullObject
    ELSE [null |-> FALSE, keys |-> order, val |-> [k \in Members(order) |-> Str(h[k].text)]]

\* parseObjectValues: obj[prop] = parse(obj[prop]) for each property of a
\* non-null obj; throws as soon as one parse does.
parseObjectValues(obj) ==
    IF obj.null THEN [ok |-> TRUE, v |-> obj]
    ELSE LET each == [k \in DOMAIN obj.val |-> parse(Reply(obj.val[k].s))] IN
         [ok |-> \A k \in DOMAIN obj.val : each[k].ok,
          v  |-> [obj EXCEPT !.val = [k \in DOMAIN obj.val |-> each[k].v]]]

Hash_getAll(flag, h, order, nullWhenEmpty) ==
    LET obj == HGETALL(h, order, nullWhenEmpty)
        d   == IF flag THEN parseObjectValues(obj) ELSE [ok |-> TRUE, v |-> obj]
    IN HRes(h, <<d.v>>, 0, ~d.ok)

\* Object.keys(null) throws a TypeError.
entriesOfNoNullCheck(obj) ==
    [ok |-> ~obj.null,
     v  |-> [i \in 1..Len(obj.keys) |-> <<obj.keys[i], obj.val[obj.keys[i]]>>]]

\* The callback of entries(): [] for null, else [key, obj[key]] for each key.
entriesOf(obj) ==
    IF obj.null THEN [ok |-> TRUE, v |-> <<>>]
    ELSE [ok |-> TRUE,
          v  |-> [i \in 1..Len(obj.keys) |-> <<obj.keys[i], obj.val[obj.keys[i]]>>]]

Hash_entries(flag, h, order, nullWhenEmpty) ==
    LET g == Hash_getAll(flag, h, order, nullWhenEmpty)
        e == entriesOf(g.ret[1])
    IN IF g.err THEN HRes(h, <<>>, 0, TRUE) ELSE HRes(h, e.v, 0, ~e.ok)

\* ---------------------------------------------------------------- the calls of a client of one Hash instance

\* HKEYS and HVALS reply the fields and their texts in the server's order.
HKEYS(h, order) == order

HVALS(h, order) == [i \in 1..Len(order) |-> h[order[i]].text]

\* HMGET replies one text per requested field, nil for a field not set.
HMGET(h, keys) == [i \in 1..Len(keys) |-> h[keys[i]]]

\* parseArray on replies that may be nil (JSON.parse(null) is null).
parseReplies(rs) ==
    LET each == [i \in 1..Len(rs) |-> parse(rs[i])] IN
    [ok |-> \A i \in 1..Len(rs) : each[i].ok,
     v  |-> [i \in 1..Len(rs) |-> each[i].v]]

Hash_keys(h, order) ==
    HRes(h, [i \in 1..Len(order) |-> Str(<<HKEYS(h, order)[i]>>)], 0, FALSE)

Hash_values(flag, h, order) ==
    LET d == decodeArray(flag, HVALS(h, order)) IN
    IF d.ok THEN HRes(h, d.v, 0, FALSE) ELSE HRes(h, <<>>, 0, TRUE)

Hash_getMul(flag, h, keys) ==
    LET rs == HMGET(h, keys)
        d  == IF flag THEN parseReplies(rs)
              ELSE [ok |-> TRUE, v |-> [i \in 1..Len(rs) |-> FromText(rs[i])]]
    IN IF d.ok THEN HRes(h, d.v, 0, FALSE) ELSE HRes(h, <<>>, 0, TRUE)

\* The key lists handed to getMul.
KeyLists == SeqsUpTo(Fields, Cardinality(Fields)) \ {<<>>}

HDone(op, key, els, r) ==
    /\ hash' = r.hash
    /\ last' = [Call(op, hash, els, 0, Omitted, r) EXCEPT !.key = key]
    /\ Issue(TRUE)
    /\ UNCHANGED <<useJSON, list, sp, seen, set, inst>>

HashSize == HashReady /\ HDone("Hash.size", "", <<>>, Hash_size(hash))

HashDelete == HashReady /\ \E key \in Fields : HDone("Hash.delete", key, <<>>, Hash_delete(hash, key))

HashHas == HashReady /\ \E key \in Fields : HDone("Hash.has", key, <<>>, Hash_has(hash, key))

HashSet ==
    /\ HashReady
    /\ \E key \in Fields, value \in HashVals(useJSON) :
        HDone("Hash.set", key, <<value>>, Hash_set(useJSON, hash, key, value))

HashGet == HashReady /\ \E key \in Fields : HDone("Hash.get", key, <<>>, Hash_get(useJSON, hash, key))

\* els records the object the client handed over.
HashGetAll ==
    /\ HashReady
    /\ \E order \in FieldOrders(hash), nullWhenEmpty \in BOOLEAN :
        HDone("Hash.getAll", "", <<HGETALL(hash, order, nullWhenEmpty)>>,
              Hash_getAll(useJSON, hash, order, nullWhenEmpty))

HashEntries ==
    /\ HashReady
    /\ \E order \in FieldOrders(hash), nullWhenEmpty \in BOOLEAN :
        HDone("Hash.entries", "", <<HGETALL(hash, order, nullWhenEmpty)>>,
              Hash_entries(useJSON, hash, order, nullWhenEmpty))

HashKeys ==
    /\ HashReady
    /\ \E order \in FieldOrders(hash) : HDone("Hash.keys", "", <<>>, Hash_keys(hash, order))

\* els records the order the server replied in.
HashValues ==
    /\ HashReady
    /\ \E order \in FieldOrders(hash) :
        HDone("Hash.values", "", order, Hash_values(useJSON, hash, order))

HashGetMul ==
    /\ HashReady
    /\ \E keys \in KeyLists : HDone("Hash.getMul", "", keys, Hash_getMul(useJSON, hash, keys))

NextHash ==
    \/ HashSize \/ HashDelete \/ HashHas \/ HashSet \/ HashGet
    \/ HashGetAll \/ HashEntries \/ HashKeys \/ HashValues \/ HashGetMul \/ Continue

InitHash == InitOf("Hash")

SpecHash == InitHash /\ [][NextHash]_vars

\* ---------------------------------------------------------------- the Redis SET commands the wrapper calls

\* SADD replies the number of members that were not in the set.
SADD(m, texts) == [set |-> m \cup Members(texts), n |-> Cardinality(Members(texts) \ m)]

\* SREM replies the number of members that were in the set.
SREM(m, texts) == [set |-> m \ Members(texts), n |-> Cardinality(Members(texts) \cap m)]

SCARD(m) == Cardinality(m)

SISMEMBER(m, text) == IF text \in m THEN 1 ELSE 0

SMEMBERS(m) == m

\* SPOP key count removes count members picked at random, all of them when
\* the set has fewer: the sets it may pick.
SPOP(m, count) ==
    {picked \in SUBSET m :
        Cardinality(picked) = IF count < Cardinality(m) THEN count ELSE Cardinality(m)}

\* ---------------------------------------------------------------- lib/set.js, set.ts

\* Members are strings (el: string[]), stored as they are whatever the flag.
SetVals == {Str(<<"a">>), Str(<<"1">>), Str(<<DELETE>>)}

SetArgs == SeqsUpTo(SetVals, MaxArgs)

\* The count arguments of pop: omitted, 0, 1, ...
PopCounts == {Omitted} \cup {Given(n) : n \in 0..MaxLen}

SRes(m, ret, n, err) == [set |-> m, ret |-> ret, n |-> n, err |-> err]

Texts(els) == [i \in 1..Len(els) |-> ToText(els[i])]

Set_add(m, els) == LET c == SADD(m, Texts(els)) IN SRes(c.set, {}, c.n, FALSE)

Set_size(m) == SRes(m, {}, SCARD(m), FALSE)

Set_has(m, el) == SRes(m, {}, SISMEMBER(m, ToText(el)), FALSE)

Set_values(m) == SRes(m, {Str(x) : x \in SMEMBERS(m)}, 0, FALSE)

\* count || 1
popCount(count) == IF count = Omitted \/ count[1] = 0 THEN 1 ELSE count[1]

\* picked is the choice SPOP made.
Set_pop(m, count, picked) == SRes(m \ picked, {Str(x) : x \in picked}, 0, FALSE)

Set_deleteFirstOnly(m, els) ==
    LET c == SREM(m, <<ToText(els[1])>>) IN SRes(c.set, {}, c.n, FALSE)

\* The client sends the members of the array el one by one.
Set_delete(m, els) == LET c == SREM(m, Texts(els)) IN SRes(c.set, {}, c.n, FALSE)

\* ---------------------------------------------------------------- the calls of a client of one Set instance

SDone(op, els, j, r) ==
    /\ set' = r.set
    /\ last' = Call(op, set, els, 0, j, r)
    /\ Issue(TRUE)
    /\ UNCHANGED <<useJSON, list, hash, sp, seen, inst>>

SetAdd ==
    /\ SetReady
    /\ \E els \in SetArgs : els # <<>> /\ SDone("Set.add", els, Omitted, Set_add(set, els))

SetSize == SetReady /\ SDone("Set.size", <<>>, Omitted, Set_size(set))

SetHas == SetReady /\ \E el \in SetVals : SDone("Set.has", <<el>>, Omitted, Set_has(set, el))

SetValues == SetReady /\ SDone("Set.values", <<>>, Omitted, Set_values(set))

SetPop ==
    /\ SetReady
    /\ \E count \in PopCounts : \E picked \in SPOP(set, popCount(count)) :
        SDone("Set.pop", <<>>, count, Set_pop(set, count, picked))

SetDelete ==
    /\ SetReady
    /\ \E els \in SetArgs : els # <<>> /\ SDone("Set.delete", els, Omitted, Set_delete(set, els))

NextSet == SetAdd \/ SetSize \/ SetHas \/ SetValues \/ SetPop \/ SetDelete \/ Continue

InitSet == InitOf("Set")

SpecSet == InitSet /\ [][NextSet]_vars

\* ---------------------------------------------------------------- clear / removeKey, on an instance of any class

\* The key holds the one collection of the instance's class.
Exists == list # <<>> \/ (\E k \in Fields : ~hash[k].nil) \/ set # {}

Clear ==
    /\ Callable
    /\ LET c == clear(Exists) IN
        /\ list' = IF c.exists THEN list ELSE <<>>
        /\ hash' = IF c.exists THEN hash ELSE EmptyHash
        /\ set' = IF c.exists THEN set ELSE {}
        /\ last' = Call("clear", [list |-> list, hash |-> hash, set |-> set], <<>>, 0, Omitted,
                        Res(<<>>, <<>>, c.n, FALSE))
    /\ Issue(TRUE)
    /\ UNCHANGED <<useJSON, sp, seen, inst>>

\* ---------------------------------------------------------------- a client of one instance of any of the three classes

InitAny == InitList \/ InitHash \/ InitSet

NextAny ==
    \/ Length \/ Shift \/ Pop \/ Push \/ Unshift \/ Slice
    \/ InsertAfter \/ InsertBefore \/ GetElementAt \/ SetElementAt \/ Trim
    \/ HashSize \/ HashDelete \/ HashHas \/ HashSet \/ HashGet \/ HashGetAll \/ HashEntries
    \/ HashKeys \/ HashValues \/ HashGetMul
    \/ SetAdd \/ SetSize \/ SetHas \/ SetValues \/ SetPop \/ SetDelete
    \/ Clear \/ Continue

SpecAny == InitAny /\ [][NextAny]_vars

\* ---------------------------------------------------------------- two instances on one key, the flag on in one and off in the other

\* The instance followed has the flag on; the writes below go through
\* another instance of the same class, on the same key, with the flag off.
PushFlagOff ==
    /\ Ready
    /\ useJSON
    /\ \E els \in ArgsOff :
        /\ els # <<>>
        /\ Len(list) + Len(els) <= MaxLen
        /\ Done("push.flagOff", els, 0, Omitted, push(FALSE, list, els))

HashSetFlagOff ==
    /\ HashReady
    /\ useJSON
    /\ \E key \in Fields, value \in HashVals(FALSE) :
        HDone("Hash.set.flagOff", key, <<value>>, Hash_set(FALSE, hash, key, value))

InitMixed == useJSON = TRUE /\ (InitList \/ InitHash)

NextMixed ==
    \/ PushFlagOff \/ HashSetFlagOff
    \/ Slice \/ GetElementAt \/ Shift \/ Pop
    \/ HashGet \/ HashGetAll \/ HashEntries \/ HashValues \/ HashGetMul
    \/ Continue

SpecMixed == InitMixed /\ [][NextMixed]_vars

\* ---------------------------------------------------------------- construction and the instance's properties

\* new List / Hash / Set (client, key, useJSON) of lib/ (Wrapper) or src/ (Base).
Construct ==
    /\ inst.state # "made"
    /\ \E type \in {"List", "Hash", "Set"}, cls \in {"Wrapper", "Base"},
          client \in Clients, key \in KeyArgs, flagArg \in FlagArgs :
        LET c == New(type, cls, client, key, flagArg) IN
        /\ inst' = c.inst
        /\ useJSON' = c.useJSON
    /\ UNCHANGED <<list, hash, last, sp, seen, set, touched>>

\* The caller assigns instance.key = v.
AssignKey ==
    /\ inst.state = "made"
    /\ \E v \in KeyArgs : inst' = [inst EXCEPT !.key = assign(inst.cls, inst.key, v)]
    /\ UNCHANGED <<useJSON, list, hash, last, sp, seen, set, touched>>

\* The caller assigns instance.useJSON = v.
AssignUseJSON ==
    /\ inst.state = "made"
    /\ \E v \in BOOLEAN : useJSON' = assign(inst.cls, useJSON, v)
    /\ UNCHANGED <<list, hash, last, sp, seen, set, inst, touched>>

InitInstance ==
    /\ useJSON = FALSE
    /\ list = <<>>
    /\ hash = EmptyHash
    /\ last = NoCall
    /\ sp = Idle
    /\ seen = <<>>
    /\ set = {}
    /\ inst = NoInstance
    /\ touched = {}

\* A call on a Base whose key was reassigned: call(method) binds this.key as
\* it is now, so the command goes to that key and the collections under the
\* key given at construction stay as they are.
CallAfterAssignKey ==
    /\ inst.state = "made" /\ inst.client = "object" /\ inst.key # inst.given.key
    /\ last.op = "none" /\ sp.pc = "idle"
    /\ Issue(TRUE)
    /\ UNCHANGED <<useJSON, list, hash, last, sp, seen, set, inst>>

NextInstance ==
    \/ Construct \/ AssignKey \/ AssignUseJSON
    \/ Push \/ HashSet \/ SetAdd \/ Clear \/ CallAfterAssignKey \/ Continue

SpecInstance == InitInstance /\ [][NextInstance]_vars

\* ---------------------------------------------------------------- properties of the List calls

\* The elements of a stored list as the instance reads them.
Elements(l) == decodeArray(useJSON, l).v

\* What slice() with no arguments resolves with on the list l.
WholeSlice(l) == slice(useJSON, l, 0, Omitted)

Min(a, b) == IF a < b THEN a ELSE b
Max(a, b) == IF a > b THEN a ELSE b

\* The elements of E at the offsets lo .. hi - 1 (zero-based, half-open).
Part(E, lo, hi) == IF lo >= hi THEN <<>> ELSE SubSeq(E, lo + 1, hi)

\* Array.prototype.slice(begin, end) on the in-memory array E.
ArraySlice(E, begin, end) ==
    LET n == Len(E)
        k == IF begin < 0 THEN Max(n + begin, 0) ELSE Min(begin, n)
        f == IF end = Omitted THEN n
             ELSE IF end[1] < 0 THEN Max(n + end[1], 0) ELSE Min(end[1], n)
    IN Part(E, k, f)

C3_SliceRanges ==
    last.op = "slice" =>
        LET E == Elements(last.pre)
            n == Len(E)
        IN /\ ~last.err
           /\ (last.j = Omitted =>
                 /\ last.ret = Part(E, IF last.i < 0 THEN Max(n + last.i, 0) ELSE last.i, n)
                 /\ sliceRange(last.i, last.j) = <<last.i, -1>>)
           /\ (last.j # Omitted =>
                 sliceRange(last.i, last.j) = <<last.i, last.j[1] - 1>>)
           /\ (last.j # Omitted /\ 0 <= last.i /\ last.i < last.j[1] =>
                 last.ret = Part(E, last.i, Min(last.j[1], n)))

C3_Witness ==
    /\ last.op = "slice"
    /\ Len(last.pre) = MaxLen
    /\ last.i = 1
    /\ last.j = Given(2)
    /\ Len(last.ret) = 1

\* C4: for every pair of integers begin, end, slice(begin, end) resolves with
\* what Array.prototype.slice(begin, end) returns on the same elements.
C4_SliceIsArraySlice ==
    last.op = "slice" =>
        /\ ~last.err
        /\ last.ret = ArraySlice(Elements(last.pre), last.i, last.j)

\* Apart from end = 0 the two agree.
C4_SliceIsArraySliceUnlessEndZero ==
    last.op = "slice" /\ last.j # Given(0) =>
        /\ ~last.err
        /\ last.ret = ArraySlice(Elements(last.pre), last.i, last.j)

\* C8: setElementAt(index, v) with 0 <= index < length replaces exactly the
\* element at index with v, every other element and the length unchanged;
\* with index >= length it rejects and leaves the list unchanged.
SetElementAtContract ==
    LET E == Elements(last.pre)
        F == Elements(list)
    IN /\ (0 <= last.i /\ last.i < Len(last.pre) =>
             /\ ~last.err
             /\ Len(F) = Len(E)
             /\ \A k \in 1..Len(E) : F[k] = IF k = last.i + 1 THEN last.els[1] ELSE E[k])
       /\ (last.i >= Len(last.pre) => last.err /\ list = last.pre)

C8_SetElementAt ==
    last.op \in {"setElementAt", "setElementAt_rev1"} => SetElementAtContract

\* The second and third revisions, which do send LSET, keep it.
C8_SetElementAtLaterRevisions ==
    last.op = "setElementAt" => SetElementAtContract

\* C9: trim(begin, end) keeps exactly the elements of the closed interval
\* [begin, end] (negative offsets counted from the tail) in their order;
\* trim(0, -1) changes nothing and trim(-k, -1) keeps the last k elements.
C9_TrimClosedInterval ==
    last.op = "trim" =>
        LET n  == Len(last.pre)
            b  == last.i
            e  == last.j[1]
            lo == IF b < 0 THEN n + b ELSE b
            hi == IF e < 0 THEN n + e ELSE e
            kept == {k \in 0..(n - 1) : lo <= k /\ k <= hi}
        IN /\ ~last.err
           /\ Len(list) = Cardinality(kept)
           /\ \A k \in kept :
                list[k + 1 - Cardinality({m \in 0..(n - 1) : m < k /\ m \notin kept})]
                    = last.pre[k + 1]
           /\ (b = 0 /\ e = -1 => list = last.pre)
           /\ (b < 0 /\ e = -1 => list = Part(last.pre, Max(n + b, 0), n))

C9_Witness ==
    /\ last.op = "trim"
    /\ Len(last.pre) = MaxLen
    /\ last.i = 1 - MaxLen
    /\ last.j = Given(-1)
    /\ Len(list) = MaxLen - 1

\* C5: for 0 <= start < length, splice(start, deleteCount, ...items) resolves
\* with the removed elements L[start .. start+deleteCount) (the rest of the
\* list when deleteCount is omitted) and leaves L[0..start), then the items in
\* argument order, then L[start+deleteCount ..].
C5_SpliceIsArraySplice ==
    last.op = "splice" /\ 0 <= last.i /\ last.i < Len(last.pre) =>
        LET E   == Elements(last.pre)
            n   == Len(E)
            end == IF last.j = Omitted THEN n ELSE Min(last.i + last.j[1], n)
        IN /\ ~last.err
           /\ last.ret = Part(E, last.i, end)
           /\ ~WholeSlice(list).err
           /\ WholeSlice(list).ret = Part(E, 0, last.i) \o last.els \o Part(E, end, n)

\* C6: splice is atomic for other clients of the key: with no write of
\* theirs in between, whatever another client read while the splice was in
\* flight is the list as it was before the splice or as the splice left it.
C6_SpliceAtomic ==
    sp.pc = "done" /\ sp.others = 0 /\ seen # <<>> => seen[1] \in {sp.pre, list}

\* C7: splice is all or nothing: when a command of splice fails, the list is
\* as it would be had the splice never been called.
C7_SpliceAllOrNothing ==
    sp.pc = "failed" => list = sp.shadow

\* C10: with the serialization flag on, set(k, v) followed by get(k)
\* resolves with a value equal to v, for every serializable v; get of a field
\* that is not set resolves with null.
C10_HashRoundTrip ==
    useJSON =>
        /\ (last.op = "Hash.set" =>
              /\ ~last.err
              /\ Hash_get(useJSON, hash, last.key).ret = last.els
              /\ ~Hash_get(useJSON, hash, last.key).err)
        /\ (last.op = "Hash.get" /\ hash[last.key].nil =>
              last.ret = <<Null>> /\ ~last.err)

C10_Witness ==
    /\ useJSON
    /\ last.op = "Hash.set"
    /\ last.els = <<Str(<<Q, "a", Q>>)>>
    /\ hash[last.key] = Reply(<<Q, BS, Q, "a", BS, Q, Q>>)

\* ---------------------------------------------------------------- properties of the Hash calls

Present(h) == {k \in Fields : ~h[k].nil}

\* C11: entries() on an empty or absent hash resolves to an empty sequence,
\* never null and never an error, for both settings of the flag; on a
\* non-empty hash it resolves to one [field, value] pair per field of
\* getAll(), the value being the one get(field) resolves with, no field
\* missing or duplicated.
C11_EntriesOfHash ==
    last.op = "Hash.entries" =>
        /\ ~last.err
        /\ (Present(last.pre) = {} => last.ret = <<>>)
        /\ Len(last.ret) = Cardinality(Present(last.pre))
        /\ \A k \in Present(last.pre) :
              \E i \in 1..Len(last.ret) :
                  last.ret[i] = <<k, Hash_get(useJSON, last.pre, k).ret[1]>>
        /\ LET g == Hash_getAll(useJSON, last.pre, last.els[1].keys, last.els[1].null).ret[1]
           IN \A i \in 1..Len(last.ret) : last.ret[i] = <<g.keys[i], g.val[g.keys[i]]>>

\* entries() of a hash with no field, the client having replied null.
C11_Witness ==
    /\ last.op = "Hash.entries"
    /\ Present(last.pre) = {}
    /\ last.els[1].null
    /\ last.ret = <<>>
    /\ ~last.err

\* entries() of a hash with two fields.
C11_WitnessTwoFields ==
    /\ last.op = "Hash.entries"
    /\ Len(last.ret) = 2
    /\ last.ret[1][1] # last.ret[2][1]

\* C12: has(field) resolves with strictly true or false, never the raw 0 / 1
\* reply: true exactly when the field is present in the hash.
C12_HasIsBoolean ==
    last.op = "Hash.has" =>
        /\ ~last.err
        /\ last.ret \in {<<Bool(TRUE)>>, <<Bool(FALSE)>>}
        /\ (last.ret = <<Bool(TRUE)>> <=> last.key \in Present(hash))
        /\ hash = last.pre

C12_Witness ==
    /\ last.op = "Hash.has"
    /\ last.key \in Present(hash)
    /\ last.ret = <<Bool(TRUE)>>

\* ---------------------------------------------------------------- properties of the Set calls and of the counts

\* The stored forms of the arguments of the last call.
ArgTexts == {ToText(last.els[i]) : i \in 1..Len(last.els)}

\* C13: the resolved counts match the elements affected: Set.add resolves
\* with the number of distinct arguments that were not members, Set.delete
\* with the number that were members and are now removed, Hash.delete with 1
\* if the field existed and 0 otherwise, List.push with the old length plus
\* the number of arguments; a count of 0 leaves the collection unchanged.
C13_CountsMatch ==
    /\ (last.op = "Set.add" =>
          /\ ~last.err
          /\ last.n = Cardinality(ArgTexts \ last.pre)
          /\ set = last.pre \cup ArgTexts
          /\ (last.n = 0 => set = last.pre))
    /\ (last.op = "Set.delete" =>
          /\ ~last.err
          /\ last.n = Cardinality(ArgTexts \cap last.pre)
          /\ set = last.pre \ ArgTexts
          /\ (last.n = 0 => set = last.pre))
    /\ (last.op = "Hash.delete" =>
          /\ ~last.err
          /\ last.n = (IF last.key \in Present(last.pre) THEN 1 ELSE 0)
          /\ Present(hash) = Present(last.pre) \ {last.key}
          /\ \A k \in Present(hash) : hash[k] = last.pre[k]
          /\ (last.n = 0 => hash = last.pre))
    /\ (last.op = "push" =>
          /\ ~last.err
          /\ last.n = Len(last.pre) + Len(last.els)
          /\ last.n = Len(list)
          /\ (last.n = 0 => list = last.pre))

\* delete(x, y) with only y a member: the count is 1.
C13_Witness ==
    /\ last.op = "Set.delete"
    /\ Len(last.els) = 2
    /\ ToText(last.els[1]) \notin last.pre
    /\ ToText(last.els[2]) \in last.pre
    /\ last.n = 1
    /\ set = last.pre \ {ToText(last.els[2])}

\* C14: pop(count) removes and returns exactly count members (all of them
\* when the set has fewer) for every count, 1 when count is omitted; the
\* returned members are those no longer in the set and every other stays.
PopContract ==
    LET count == IF last.j = Omitted THEN 1 ELSE last.j[1]
        size  == Cardinality(last.pre)
    IN /\ ~last.err
       /\ Cardinality(last.ret) = (IF count < size THEN count ELSE size)
       /\ {v.s : v \in last.ret} = last.pre \ set
       /\ set \subseteq last.pre

C14_PopCount ==
    last.op = "Set.pop" => PopContract

\* For every count but 0 it holds.
C14_PopCountNotZero ==
    last.op = "Set.pop" /\ last.j # Given(0) => PopContract

\* C15: shift() removes and returns the first element and pop() the last,
\* the length decreasing by one and the other elements keeping their order;
\* on an empty list both resolve with null, without error, and leave the list
\* empty, for both settings of the flag.
C15_ShiftAndPop ==
    /\ (last.op = "shift" =>
          /\ ~last.err
          /\ (last.pre = <<>> => last.ret = <<Null>> /\ list = <<>>)
          /\ (last.pre # <<>> =>
                /\ last.ret = <<Elements(last.pre)[1]>>
                /\ list = Tail(last.pre)
                /\ Len(list) = Len(last.pre) - 1))
    /\ (last.op = "pop" =>
          /\ ~last.err
          /\ (last.pre = <<>> => last.ret = <<Null>> /\ list = <<>>)
          /\ (last.pre # <<>> =>
                /\ last.ret = <<Elements(last.pre)[Len(last.pre)]>>
                /\ list = SubSeq(last.pre, 1, Len(last.pre) - 1)
                /\ Len(list) = Len(last.pre) - 1))

\* shift() on a list of MaxLen elements whose first and last differ.
C15_Witness ==
    /\ last.op = "shift"
    /\ Len(last.pre) = MaxLen
    /\ last.pre[1] # last.pre[MaxLen]
    /\ last.ret = <<Elements(last.pre)[1]>>

\* shift() on the empty list.
C15_WitnessEmpty ==
    /\ last.op = "shift"
    /\ last.pre = <<>>
    /\ last.ret = <<Null>>

\* ---------------------------------------------------------------- properties of construction

ValidClient(c) == c = "object"

ValidKey(k) == k.t = "str" /\ k.s # <<>>

\* C16: construction validates its arguments before any instance exists: it
\* fails with the invalid-client error when the client is absent or not an
\* object and with the invalid-key error when the key is not a non-empty
\* string; no instance is ever created with a missing client or such a key.
C16_ConstructionValidates ==
    inst.state \in {"made", "threw"} =>
        /\ (~ValidClient(inst.given.client) => inst.state = "threw" /\ inst.error = "client")
        /\ (ValidClient(inst.given.client) /\ ~ValidKey(inst.given.key) =>
              inst.state = "threw" /\ inst.error = "key")
        /\ (inst.state = "made" => ValidClient(inst.given.client) /\ ValidKey(inst.given.key))

\* What lib/wrapper.js does keep: no instance without a client object, none
\* with a falsy key; a key that is not a string passes.
C16_WrapperRejectsMissing ==
    inst.cls = "Wrapper" =>
        /\ (~ValidClient(inst.given.client) => inst.state = "threw" /\ inst.error = "client")
        /\ (ValidClient(inst.given.client) /\ Falsy(inst.given.key) =>
              inst.state = "threw" /\ inst.error = "key")
        /\ (inst.state = "made" => ValidClient(inst.given.client) /\ ~Falsy(inst.given.key))

\* C17: the key and the flag of an instance are fixed at construction: after
\* any sequence of operations (clear / removeKey included) and of attempts to
\* reassign them, they equal the values passed to the constructor.
C17_KeyAndFlagFixed ==
    inst.state = "made" => inst.key = inst.given.key /\ useJSON = inst.given.flag

\* The instances of lib/wrapper.js keep them.
C17_WrapperKeyAndFlagFixed ==
    inst.state = "made" /\ inst.cls = "Wrapper" =>
        inst.key = inst.given.key /\ useJSON = inst.given.flag

\* ---------------------------------------------------------------- properties of clear / removeKey

\* C18: clear() / removeKey() deletes the whole collection stored under the
\* instance's key and resolves with the number of keys removed, 1 if the
\* collection existed and 0 if not; afterwards length() / size() resolve with
\* 0 and slice() / values() / entries() with nothing, and the instance stays
\* usable: a push / set / add that follows recreates the collection.
C18_ClearRemovesCollection ==
    last.op = "clear" =>
        /\ ~last.err
        /\ last.n = (IF last.pre.list # <<>> \/ Present(last.pre.hash) # {} \/ last.pre.set # {}
                     THEN 1 ELSE 0)
        /\ LLEN(list) = 0
        /\ WholeSlice(list).ret = <<>> /\ ~WholeSlice(list).err
        /\ Hash_size(hash).n = 0
        /\ \A nullWhenEmpty \in BOOLEAN :
              LET e == Hash_entries(useJSON, hash, <<>>, nullWhenEmpty) IN
              e.ret = <<>> /\ ~e.err
        /\ FieldOrders(hash) = {<<>>}
        /\ Set_size(set).n = 0
        /\ Set_values(set).ret = {}
        /\ inst.state = "made" /\ inst.key = inst.given.key
        /\ \A v \in ListVals(useJSON) :
              WholeSlice(push(useJSON, list, <<v>>).list).ret = <<v>>
        /\ \A k \in Fields, v \in HashVals(useJSON) :
              Hash_get(useJSON, Hash_set(useJSON, hash, k, v).hash, k).ret = <<v>>
        /\ \A v \in SetVals : Set_add(set, <<v>>).set = {ToText(v)}

\* clear() of a list of MaxLen elements.
C18_Witness ==
    /\ last.op = "clear"
    /\ Len(last.pre.list) = MaxLen
    /\ last.n = 1
    /\ list = <<>>

\* clear() of a key that holds nothing.
C18_WitnessAbsent ==
    /\ last.op = "clear"
    /\ last.pre.list = <<>> /\ Present(last.pre.hash) = {} /\ last.pre.set = {}
    /\ last.n = 0

\* clear() of a hash and of a set.
C18_WitnessHash ==
    last.op = "clear" /\ Cardinality(Present(last.pre.hash)) = 2 /\ last.n = 1

C18_WitnessSet ==
    last.op = "clear" /\ Cardinality(last.pre.set) = 2 /\ last.n = 1

\* ---------------------------------------------------------------- properties of splice's deletion and of the inserts

\* The stored form of the literal '__DELETE__' written through the instance.
StoredMark == setElementAtText(useJSON, SpliceMark)

\* The last call was a splice with no items that ran its deletion on a list
\* holding the stored literal at a position outside [start, start + deleteCount).
SpliceOverSentinel ==
    /\ last.op = "splice"
    /\ last.els = <<>>
    /\ last.i >= 0
    /\ (last.j = Omitted \/ last.j[1] > 0)
    /\ \E p \in 1..Len(last.pre) :
          /\ last.pre[p] = StoredMark
          /\ (p - 1 < last.i \/ (last.j # Omitted /\ p - 1 >= last.i + last.j[1]))

SentinelGone ==
    /\ \A q \in 1..Len(list) : list[q] # StoredMark
    /\ Len(last.pre) - Len(list) > Len(last.ret)

\* C19: splice's mark-then-bulk-remove deletion also removes pre-existing
\* elements equal to the sentinel: an element whose stored form is that of
\* the literal '__DELETE__', at a position outside [start, start+deleteCount),
\* is gone after the splice, so the list loses more elements than splice
\* returns.
C19_SpliceRemovesSentinelElements ==
    SpliceOverSentinel => SentinelGone

\* With the flag on it does.
C19_SpliceRemovesSentinelElementsFlagOn ==
    useJSON /\ SpliceOverSentinel => SentinelGone

\* With the flag off the stored literal survives, and so do the marks.
C19_SentinelStaysFlagOff ==
    ~useJSON /\ SpliceOverSentinel =>
        /\ Len(list) = Len(last.pre)
        /\ \E q \in 1..Len(list) : list[q] = StoredMark

\* The offset of the first element of E equal to ref, Len(E) when there is none.
FirstAt(E, ref) ==
    IF \E p \in 1..Len(E) : E[p] = ref
    THEN (CHOOSE p \in 1..Len(E) : E[p] = ref /\ \A q \in 1..(p - 1) : E[q] # ref) - 1
    ELSE Len(E)

InsertContract ==
    LET E   == Elements(last.pre)
        ref == last.els[1]
        el  == last.els[2]
        at  == FirstAt(E, ref) + (IF last.op = "insertAfter" THEN 1 ELSE 0)
    IN /\ ~last.err
       /\ ~WholeSlice(list).err
       /\ (FirstAt(E, ref) < Len(E) =>
             /\ WholeSlice(list).ret = Part(E, 0, at) \o <<el>> \o Part(E, at, Len(E))
             /\ last.n = Len(E) + 1)
       /\ (FirstAt(E, ref) = Len(E) => list = last.pre)

\* C20: insertAfter(ref, el) / insertBefore(ref, el), ref being the value of
\* an element written to the list through the same instance, inserts el
\* right after / before the first occurrence of that element, leaves the
\* other elements in order and resolves with the old length + 1, for both
\* settings of the flag; when no element matches ref the list is unchanged.
C20_InsertBesideValue ==
    last.op \in {"insertAfter", "insertBefore"} => InsertContract

\* With the flag off it does, and with the flag on when ref is a number.
C20_InsertBesideValueRawPivot ==
    last.op \in {"insertAfter", "insertBefore"} /\ (~useJSON \/ last.els[1].t = "num") =>
        InsertContract

\* ---------------------------------------------------------------- properties of reads through the other flag

MixedReads == {"slice", "getElementAt", "Hash.get", "Hash.values", "Hash.getMul", "Hash.getAll"}

\* The replies the last read got from the server, one per value asked for.
RepliesRead ==
    CASE last.op = "slice" ->
            LET r == sliceRange(last.i, last.j)
                T == LRANGE(last.pre, r[1], r[2])
            IN [k \in 1..Len(T) |-> Reply(T[k])]
      [] last.op = "getElementAt" -> <<LINDEX(last.pre, last.i)>>
      [] last.op = "Hash.get" -> <<HGET(last.pre, last.key)>>
      [] last.op = "Hash.values" -> [k \in 1..Len(last.els) |-> last.pre[last.els[k]]]
      [] last.op = "Hash.getMul" -> HMGET(last.pre, last.els)
      [] last.op = "Hash.getAll" ->
            [k \in 1..Len(last.els[1].keys) |-> last.pre[last.els[1].keys[k]]]

\* The values the last read resolved with, in the same order.
ValuesRead ==
    IF last.op = "Hash.getAll"
    THEN [k \in 1..Len(last.ret[1].keys) |-> last.ret[1].val[last.ret[1].keys[k]]]
    ELSE last.ret

\* The collection the instance's class stores, before and after the last call.
StoreUnchanged ==
    IF inst.type = "List" THEN list = last.pre ELSE hash = last.pre

\* C21: a value written through the flag-off instance and read through the
\* flag-on instance (get, getElementAt, slice, values, getAll, getMul) is
\* never returned as a silently wrong value: the read fails with a decode
\* error or resolves with the values as they were written, and the remote
\* collection is left unchanged.
C21_NoSilentWrongValue ==
    last.op \in MixedReads =>
        /\ StoreUnchanged
        /\ \/ last.err
           \/ /\ Len(ValuesRead) = Len(RepliesRead)
              /\ \A k \in 1..Len(RepliesRead) : ValuesRead[k] = FromText(RepliesRead[k])

\* The texts that are the encoding of some value.
Encodings ==
    {toJSON(v) : v \in {Str(x) : x \in SeqsUpTo({"a", "1", DELETE, Q, BS}, 1)}
                       \cup {Num(d) : d \in Digits} \cup {Null}}

\* C21 as amended: the read fails with a decode error exactly when one of
\* the texts it reads is not validly encoded, and leaves the collection
\* unchanged; when every text read is a valid encoding the read resolves
\* with the values those texts encode.
C21_DecodeErrorIffNotEncoded ==
    last.op \in MixedReads =>
        /\ StoreUnchanged
        /\ (last.err <=> \E k \in 1..Len(RepliesRead) :
                            ~RepliesRead[k].nil /\ RepliesRead[k].text \notin Encodings)
        /\ (~last.err =>
              /\ Len(ValuesRead) = Len(RepliesRead)
              /\ \A k \in 1..Len(RepliesRead) :
                    IF RepliesRead[k].nil THEN ValuesRead[k] = Null
                    ELSE toJSON(ValuesRead[k]) = RepliesRead[k].text)

\* slice() of a list holding raw texts fails and leaves the list as it was.
C21_Witness ==
    /\ last.op = "slice"
    /\ inst.given.flag
    /\ last.err
    /\ Len(last.pre) = MaxLen
    /\ list = last.pre

\* get() of the raw text 1 resolves with the number 1, not the string '1'.
C21_WitnessSilent ==
    /\ last.op = "Hash.get"
    /\ hash[last.key] = Reply(<<"1">>)
    /\ ~last.err
    /\ last.ret = <<Num("1")>>

\* C23: when shift() or pop() on a flag-on instance fails because the stored
\* element cannot be decoded, the list is left unchanged.
C23_FailedShiftPopHasNoEffect ==
    last.op \in {"shift", "pop"} /\ last.err => list = last.pre

\* What happens instead: the element is removed and lost.
C23_FailedShiftPopRemoves ==
    last.op \in {"shift", "pop"} /\ last.err => Len(list) = Len(last.pre) - 1

\* ---------------------------------------------------------------- splice's deletion under both flag settings

\* The literal '__DELETE__' as stored raw and as stored encoded.
MarkForms == {setElementAtText(FALSE, SpliceMark), setElementAtText(TRUE, SpliceMark)}

DeletionExact ==
    /\ Len(last.pre) - Len(list) = Len(last.ret)
    /\ \A q \in 1..Len(list) : list[q] \notin MarkForms

\* C22: for both flag settings, after splice(start, deleteCount) with no
\* items the list is shorter by exactly the number of elements returned and
\* holds no element equal to the sentinel marker, raw or encoded.
C22_SpliceDeletionExact ==
    last.op = "splice" /\ last.els = <<>> /\ ~last.err => DeletionExact

\* With the flag on and no stored literal in the list beforehand, it is so.
C22_SpliceDeletionExactFlagOnNoSentinel ==
    /\ last.op = "splice" /\ last.els = <<>> /\ ~last.err
    /\ useJSON
    /\ \A p \in 1..Len(last.pre) : last.pre[p] \notin MarkForms
    => DeletionExact

\* With the flag off every splice that deletes leaves its marks in the list.
C22_MarksStayFlagOff ==
    /\ last.op = "splice" /\ last.els = <<>> /\ ~last.err
    /\ ~useJSON
    /\ Len(last.ret) > 0
    => /\ Len(list) = Len(last.pre)
       /\ \E q \in 1..Len(list) : list[q] = setElementAtText(FALSE, SpliceMark)

\* ---------------------------------------------------------------- key isolation

\* C24: every operation of an instance constructed with key k issues its
\* commands only against k, so the collections stored under every other key
\* are unchanged after any sequence of operations on the instance.
C24_KeyIsolation == touched \subseteq {inst.given.key}

\* It is so for an instance of lib/ (Wrapper), whose key cannot be reassigned.
C24_KeyIsolationWrapper == inst.cls = "Wrapper" => touched \subseteq {inst.given.key}

\* Every call issues its commands against the instance's key as it is when
\* the call is made.
C24_CommandsGoToCurrentKey == [][touched' \subseteq touched \cup {inst.key}]_vars

\* Commands were issued against the key given at construction and no other.
C24_WitnessOwnKey ==
    /\ touched = {inst.given.key}
    /\ last.op = "clear"
    /\ last.n = 1

\* ---------------------------------------------------------------- operations that only read

ReadOnlyOps ==
    {"length", "slice", "getElementAt",
     "Hash.size", "Hash.keys", "Hash.values", "Hash.has", "Hash.get", "Hash.getMul",
     "Hash.getAll", "Hash.entries",
     "Set.size", "Set.has", "Set.values"}

\* The collection of the instance's class as it is stored now.
StoredNow ==
    CASE inst.type = "List" -> list
      [] inst.type = "Hash" -> hash
      [] inst.type = "Set" -> set

\* C25: after List.length/slice/getElementAt, Hash.size/keys/values/has/get/
\* getMul/getAll/entries and Set.size/has/values the stored collection is
\* identical to what it was before the call, for every argument and both
\* flag settings, whether the call resolved or rejected.
C25_ReadOnlyLeavesCollection ==
    last.op \in ReadOnlyOps => StoredNow = last.pre

\* Nor does such a call change what is stored under the key as another type.
C25_ReadOnlyStep ==
    [][last'.op \in ReadOnlyOps => list' = list /\ hash' = hash /\ set' = set]_vars

\* getElementAt past the end of a list of MaxLen elements.
C25_Witness ==
    /\ last.op = "getElementAt"
    /\ Len(last.pre) = MaxLen
    /\ last.i >= MaxLen
    /\ last.ret = <<Null>>
    /\ list = last.pre

\* getElementAt of an element that is there.
C25_WitnessPresent ==
    /\ last.op = "getElementAt"
    /\ Len(last.pre) = MaxLen
    /\ last.i = 1
    /\ ~last.err
    /\ list = last.pre

\* get of an absent field of a hash that has another, flag on.
C25_WitnessAbsentField ==
    /\ last.op = "Hash.get"
    /\ useJSON
    /\ last.pre[last.key].nil
    /\ \E k \in Fields : ~last.pre[k].nil
    /\ hash = last.pre

\* has of a value that is not a member of a set that has members.
C25_WitnessNotMember ==
    /\ last.op = "Set.has"
    /\ last.pre # {}
    /\ last.n = 0
    /\ set = last.pre

====
